---- MODULE Spec2Model ----
(***************************************************************************)
(* Model of the mutantstopbot backtest core:                               *)
(*   src/src/core/calc.py  - exit_total, take_profit, stop_loss,           *)
(*                           forward_fill, entry_price                     *)
(*   src/src/bot/solve.py  - _stats, _solve_run, _find_max,                *)
(*                           segmented_solve                               *)
(*   src/src/bot.py        - bot_run, bot                                  *)
(*                                                                         *)
(* Arrays are sequences indexed 1..n (bar t of the source is index t+1).   *)
(* A float64 is a record [nan, v]: either NaN or the integer v (the values *)
(* used are small integers, on which float64 arithmetic is exact).         *)
(***************************************************************************)
EXTENDS Integers, Sequences, FiniteSets

VARIABLES
    op,                 \* the function applied last ("input" before any call)
    signal,             \* current signal array
    trigger,            \* current trigger array
    position_value,     \* current position value array
    atr,                \* average true range column
    entry,              \* entry-side price column
    exit,               \* exit-side price column
    take_profit_value,  \* take profit multiplier
    stop_loss_value,    \* stop loss multiplier
    in_signal,          \* signal argument of the last call
    in_trigger,         \* trigger argument of the last call
    pnl,                \* (exit_value, exit_total, running_total) of the last exit_total call
    result,             \* value returned by the last _stats / _solve_run call
    pc,                 \* position of _find_max: "idle", "loop", "done"
    force_edge,         \* solver_config.force_edge
    count,              \* _find_max: count
    total_found,        \* _find_max: total_found
    best_result,        \* _find_max: best_result
    kernel_conf,        \* _find_max: configuration of the current iteration
    outcome,            \* what the current iteration did with its candidate
    accepted,           \* configurations whose result _stats accepted, so far
    ret,                \* value returned by _find_max
    orig_df,            \* segmented_solve: the preprocessed bar series, oldest bar first
    train_size,         \* solver_config.train_size
    sample_size,        \* solver_config.sample_size
    orig_df_train,      \* segmented_solve: training window
    orig_df_tp_train,   \* segmented_solve: refine window
    orig_df_sample,     \* segmented_solve: holdout sample window
    seg_pc,             \* position of segmented_solve
    sample_runs,        \* what the kernel yields on the holdout sample, per configuration
    searches,           \* the _find_max calls segmented_solve made so far, in order
    raw_zk_result,      \* segmented_solve: raw_zk_result
    refined_result_zk,  \* segmented_solve: refined_result_zk
    result_pk,          \* segmented_solve: result_pk
    raw_zk_bet,         \* segmented_solve: raw_zk_bet
    zk_bet,             \* segmented_solve: zk_bet
    pk_bet,             \* segmented_solve: pk_bet
    seg_ret,            \* value returned by segmented_solve
    bot_pc,             \* position of bot / bot_run
    trade_id,           \* bot_run: trade_id
    rec,                \* bot_run: rec, the signal and trigger of the last bar
    calls,              \* exchange and reporting calls of the current bot_run, in order
    bot_ret             \* what the last bot_run returned or raised

calc_vars == <<op, signal, trigger, position_value, atr, entry, exit, take_profit_value, stop_loss_value, in_signal, in_trigger, pnl>>

solve_vars == <<pc, force_edge, count, total_found, best_result, kernel_conf, outcome, accepted, ret>>

window_vars == <<orig_df, train_size, sample_size, orig_df_train, orig_df_tp_train, orig_df_sample>>

segment_vars == <<seg_pc, sample_runs, searches, raw_zk_result, refined_result_zk, result_pk, raw_zk_bet, zk_bet, pk_bet, seg_ret>>

bot_vars == <<bot_pc, trade_id, rec, calls, bot_ret>>

vars == <<calc_vars, result, solve_vars, window_vars, segment_vars, bot_vars>>

\* ------------------------------------------------------------------ bounds

\* Bars of a P&L path (exit_total, _stats, entry_price, _solve_run).
Bars == 3

\* Bars of the arrays given to take_profit and stop_loss.
OverrideBars == 2

\* Largest magnitude of a position value.
MaxVal == 3

\* Largest price of the entry-side and exit-side columns.
MaxPrice == 2

\* Largest number of configurations the generator yields in one _find_max run.
MaxConfigs == 2

\* Largest number of bars of the series segmented_solve partitions.
MaxSeries == 6

\* Largest solver_config.train_size and solver_config.sample_size.
MaxWindow == 4

\* Largest trade id the exchange hands out.
MaxTradeId == 2

\* ------------------------------------------------------------------ float64

NaN == [nan |-> TRUE, v |-> 0]

F(n) == [nan |-> FALSE, v |-> n]

isnan(a) == a.nan

\* a + b
fadd(a, b) == IF a.nan \/ b.nan THEN NaN ELSE F(a.v + b.v)

\* a - b
fsub(a, b) == IF a.nan \/ b.nan THEN NaN ELSE F(a.v - b.v)

\* a * b   (NaN * 0 is NaN)
fmul(a, b) == IF a.nan \/ b.nan THEN NaN ELSE F(a.v * b.v)

\* a > b   (False when either side is NaN)
fgt(a, b) == ~a.nan /\ ~b.nan /\ a.v > b.v

\* a < b   (False when either side is NaN)
flt(a, b) == ~a.nan /\ ~b.nan /\ a.v < b.v

\* a <= b  (False when either side is NaN)
fle(a, b) == ~a.nan /\ ~b.nan /\ a.v <= b.v

\* a >= b  (False when either side is NaN)
fge(a, b) == ~a.nan /\ ~b.nan /\ a.v >= b.v

\* abs(a)
fabs(a) == IF a.nan THEN NaN ELSE F(IF a.v < 0 THEN -a.v ELSE a.v)

\* Python's None
None == [none |-> TRUE]

\* ------------------------------------------------------------------ numpy

\* diff with the operands of the subtraction swapped
diff_swapped(sig) == [t \in 1..Len(sig) |-> IF t = 1 THEN 0 ELSE sig[t - 1] - sig[t]]

\* np.concatenate((np.zeros(1), np.diff(sig)))
diff(sig) == [t \in 1..Len(sig) |-> IF t = 1 THEN 0 ELSE sig[t] - sig[t - 1]]

RECURSIVE cumsum_at(_, _)
cumsum_at(arr, t) == IF t = 1 THEN arr[1] ELSE fadd(cumsum_at(arr, t - 1), arr[t])

\* np.cumsum(arr)
cumsum(arr) == [t \in 1..Len(arr) |-> cumsum_at(arr, t)]

RECURSIVE array_min_upto(_, _)
array_min_upto(arr, t) ==
    IF t = 1 THEN arr[1]
    ELSE LET m == array_min_upto(arr, t - 1)
         IN  IF m.nan THEN m ELSE IF arr[t].nan THEN arr[t] ELSE IF arr[t].v < m.v THEN arr[t] ELSE m

\* arr.min()   (NaN when the array holds a NaN)
array_min(arr) == array_min_upto(arr, Len(arr))

RECURSIVE array_max_upto(_, _)
array_max_upto(arr, t) ==
    IF t = 1 THEN arr[1]
    ELSE LET m == array_max_upto(arr, t - 1)
         IN  IF m.nan THEN m ELSE IF arr[t].nan THEN arr[t] ELSE IF arr[t].v > m.v THEN arr[t] ELSE m

\* arr.max()   (NaN when the array holds a NaN)
array_max(arr) == array_max_upto(arr, Len(arr))

\* ------------------------------------------------------------------ calc.py

\* np.where((position_value > take_profit_array) & (trigger != 1), 0, signal)
take_profit_signal(pv, atr_in, sig, tpv, trig) ==
    [t \in 1..Len(sig) |-> IF fgt(pv[t], fmul(F(tpv), atr_in[t])) /\ trig[t] # 1 THEN 0 ELSE sig[t]]

\* take_profit returning the trigger it was given
take_profit_stale_trigger(pv, atr_in, sig, tpv, trig) ==
    [signal |-> take_profit_signal(pv, atr_in, sig, tpv, trig), trigger |-> trig]

\* take_profit firing on >= instead of >
take_profit_at_threshold(pv, atr_in, sig, tpv, trig) ==
    LET s == [t \in 1..Len(sig) |->
                 IF ~flt(pv[t], fmul(F(tpv), atr_in[t])) /\ ~pv[t].nan /\ ~atr_in[t].nan /\ trig[t] # 1
                 THEN 0 ELSE sig[t]]
    IN  [signal |-> s, trigger |-> diff(s)]

take_profit(pv, atr_in, sig, tpv, trig) ==
    LET s == take_profit_signal(pv, atr_in, sig, tpv, trig)
    IN  [signal |-> s, trigger |-> diff(s)]

\* np.where(position_value < stop_loss_array, 0, signal)
stop_loss_signal(pv, atr_in, sig, slv) ==
    [t \in 1..Len(sig) |-> IF flt(pv[t], fmul(F(-slv), atr_in[t])) THEN 0 ELSE sig[t]]

\* stop_loss sparing entry bars, as take_profit does
stop_loss_spares_entries(pv, atr_in, sig, slv, trig) ==
    LET s == [t \in 1..Len(sig) |->
                 IF flt(pv[t], fmul(F(-slv), atr_in[t])) /\ trig[t] # 1 THEN 0 ELSE sig[t]]
    IN  [signal |-> s, trigger |-> diff(s)]

stop_loss(pv, atr_in, sig, slv, trig) ==
    LET s == stop_loss_signal(pv, atr_in, sig, slv)
    IN  [signal |-> s, trigger |-> diff(s)]

RECURSIVE forward_fill_at(_, _)
forward_fill_at(arr, t) ==
    IF ~isnan(arr[t]) THEN arr[t]
    ELSE IF t = 1 THEN NaN ELSE forward_fill_at(arr, t - 1)

forward_fill(arr) == [t \in 1..Len(arr) |-> forward_fill_at(arr, t)]

\* np.logical_or(signal, trigger), as the 0.0 / 1.0 it multiplies with
internal_bit_mask(sig, trig) == [t \in 1..Len(sig) |-> IF sig[t] # 0 \/ trig[t] # 0 THEN F(1) ELSE F(0)]

entry_price(entry_in, exit_in, sig, trig) ==
    LET mask == internal_bit_mask(sig, trig)
        captured == [t \in 1..Len(sig) |-> IF trig[t] = 1 THEN entry_in[t] ELSE NaN]
        filled == forward_fill(captured)
        price == [t \in 1..Len(sig) |-> fmul(filled[t], mask[t])]
    IN  [t \in 1..Len(sig) |-> fmul(fsub(exit_in[t], price[t]), mask[t])]

\* exit_total realising the position at every falling trigger, -2 included
exit_total_any_drop(pv, trig, sig) ==
    LET ev == [t \in 1..Len(pv) |-> IF trig[t] < 0 THEN pv[t] ELSE F(0)]
        et == cumsum(ev)
    IN  [exit_value |-> ev,
         exit_total |-> et,
         running_total |-> [t \in 1..Len(pv) |-> fadd(et[t], fmul(pv[t], F(sig[t])))]]

exit_total(pv, trig, sig) ==
    LET ev == [t \in 1..Len(pv) |-> IF trig[t] = -1 THEN pv[t] ELSE F(0)]
        et == cumsum(ev)
    IN  [exit_value |-> ev,
         exit_total |-> et,
         running_total |-> [t \in 1..Len(pv) |-> fadd(et[t], fmul(pv[t], F(sig[t])))]]

\* ------------------------------------------------------------------ solve.py

\* wins / (wins + losses) as the fraction num / den, 0.0 as 0 / 1
stats_ratio(wins, losses) ==
    IF wins + losses > 0 THEN [num |-> wins, den |-> wins + losses] ELSE [num |-> 0, den |-> 1]

\* exit_total[-1] if exit_total[-1] > 0 else np.float64(0.0)
stats_final_total(et) == IF fgt(et[Len(et)], F(0)) THEN et[Len(et)] ELSE F(0)

\* the rejection rule with final_total < 0.0 for final_total <= 0.0
stats_rejects_negative_only(et) ==
    flt(stats_final_total(et), F(0)) \/ flt(array_max(et), fabs(array_min(et)))

\* the rejection rule without the test of final_total
stats_rejects_drawdown_only(et) == flt(array_max(et), fabs(array_min(et)))

\* final_total <= 0.0 or max_total < abs(min_total)
stats_rejects(et) ==
    fle(stats_final_total(et), F(0)) \/ flt(array_max(et), fabs(array_min(et)))

\* wins counted with exit_value >= 0
stats_wins_with_zero(ev) == Cardinality({t \in 1..Len(ev) : fge(ev[t], F(0))})

\* np.where(exit_value > 0, 1, 0).astype(np.int64).sum()
stats_wins(ev) == Cardinality({t \in 1..Len(ev) : fgt(ev[t], F(0))})

\* np.where(exit_value < 0, 1, 0).astype(np.int64).sum()
stats_losses(ev) == Cardinality({t \in 1..Len(ev) : flt(ev[t], F(0))})

_stats(ev, et) ==
    IF stats_rejects(et) THEN None
    ELSE [final_total |-> stats_final_total(et),
          min_total |-> array_min(et),
          wins |-> stats_wins(ev),
          losses |-> stats_losses(ev),
          ratio |-> stats_ratio(stats_wins(ev), stats_losses(ev))]

\* ------------------------------------------------------------------ inputs

SignalValues == {-1, 0, 1}

PositionValues == {NaN} \cup {F(v) : v \in -MaxVal..MaxVal}

\* talib.ATR column: undefined during warm-up, positive afterwards
AtrColumns(n) == {[t \in 1..n |-> IF t <= k THEN NaN ELSE F(a)] : k \in 0..1, a \in {1, 2}}

\* take-profit / stop-loss multipliers of the atr
Multipliers == {1, 2}

IdleCalc ==
    /\ op = "idle"
    /\ signal = <<>>
    /\ trigger = <<>>
    /\ position_value = <<>>
    /\ atr = <<>>
    /\ entry = <<>>
    /\ exit = <<>>
    /\ take_profit_value = 0
    /\ stop_loss_value = 0
    /\ in_signal = <<>>
    /\ in_trigger = <<>>
    /\ pnl = None

IdleSolve ==
    /\ pc = "idle"
    /\ force_edge = ""
    /\ count = 0
    /\ total_found = 0
    /\ best_result = None
    /\ kernel_conf = None
    /\ outcome = "none"
    /\ accepted = {}
    /\ ret = None

IdleWindows ==
    /\ orig_df = <<>>
    /\ train_size = 0
    /\ sample_size = 0
    /\ orig_df_train = <<>>
    /\ orig_df_tp_train = <<>>
    /\ orig_df_sample = <<>>

IdleSegment ==
    /\ seg_pc = "idle"
    /\ sample_runs = None
    /\ searches = <<>>
    /\ raw_zk_result = None
    /\ refined_result_zk = None
    /\ result_pk = None
    /\ raw_zk_bet = None
    /\ zk_bet = None
    /\ pk_bet = None
    /\ seg_ret = None

IdleBot ==
    /\ bot_pc = "idle"
    /\ trade_id = None
    /\ rec = None
    /\ calls = <<>>
    /\ bot_ret = None

\* ------------------------------------------------------------------ take_profit, stop_loss

InitOverride ==
    /\ op = "input"
    /\ signal \in [1..OverrideBars -> SignalValues]
    /\ trigger = diff(signal)
    /\ position_value \in [1..OverrideBars -> PositionValues]
    /\ atr \in AtrColumns(OverrideBars)
    /\ entry = <<>>
    /\ exit = <<>>
    /\ take_profit_value \in Multipliers
    /\ stop_loss_value \in Multipliers
    /\ in_signal = signal
    /\ in_trigger = trigger
    /\ pnl = None
    /\ result = None
    /\ IdleSolve
    /\ IdleWindows
    /\ IdleSegment
    /\ IdleBot

TakeProfit ==
    /\ op = "input"
    /\ LET r == take_profit(position_value, atr, signal, take_profit_value, trigger)
       IN  /\ signal' = r.signal
           /\ trigger' = r.trigger
    /\ in_signal' = signal
    /\ in_trigger' = trigger
    /\ op' = "take_profit"
    /\ UNCHANGED <<position_value, atr, entry, exit, take_profit_value, stop_loss_value, pnl, result, solve_vars, window_vars, segment_vars, bot_vars>>

StopLoss ==
    /\ op \in {"input", "take_profit"}
    /\ LET r == stop_loss(position_value, atr, signal, stop_loss_value, trigger)
       IN  /\ signal' = r.signal
           /\ trigger' = r.trigger
    /\ in_signal' = signal
    /\ in_trigger' = trigger
    /\ op' = "stop_loss"
    /\ UNCHANGED <<position_value, atr, entry, exit, take_profit_value, stop_loss_value, pnl, result, solve_vars, window_vars, segment_vars, bot_vars>>

NextOverride == TakeProfit \/ StopLoss

SpecOverride == InitOverride /\ [][NextOverride]_vars

Overridden == op \in {"take_profit", "stop_loss"}

\* C5: the arrays take_profit and stop_loss return hold signals in {-1,0,1},
\* trigger 0 at the first bar, and at every later bar the first difference of
\* the returned signal.
C5_TriggerIsDiffOfReturnedSignal ==
    Overridden =>
        /\ \A t \in 1..Len(signal) : signal[t] \in {-1, 0, 1}
        /\ Len(trigger) = Len(signal)
        /\ trigger[1] = 0
        /\ \A t \in 2..Len(signal) : trigger[t] = signal[t] - signal[t - 1]

\* an override changed the signal, so the returned trigger differs from the
\* difference of the input signal and from the input trigger
C5_Witness ==
    /\ Overridden
    /\ signal # in_signal
    /\ trigger # in_trigger
    /\ \E t \in 2..Len(signal) : trigger[t] # in_signal[t] - in_signal[t - 1]

\* C6 as stated: every trigger take_profit and stop_loss return is in {-1,0,1}.
C6_TriggerInUnitRange ==
    Overridden => \A t \in 1..Len(trigger) : trigger[t] \in {-1, 0, 1}

\* C6 amended: every returned trigger is in -2..2; when the input signal takes
\* only the values 0 and 1 it is in {-1,0,1}, +1 only where the returned signal
\* goes 0 -> 1 (entry) and -1 only where it goes 1 -> 0 (exit).
C6_TriggerRange ==
    Overridden =>
        /\ \A t \in 1..Len(trigger) : trigger[t] \in -2..2
        /\ (\A t \in 1..Len(in_signal) : in_signal[t] \in {0, 1}) =>
               \A t \in 1..Len(trigger) :
                   /\ trigger[t] \in {-1, 0, 1}
                   /\ trigger[t] = 1 => (t > 1 /\ signal[t - 1] = 0 /\ signal[t] = 1)
                   /\ trigger[t] = -1 => (t > 1 /\ signal[t - 1] = 1 /\ signal[t] = 0)

\* a long-only input signal whose override produced an exit event
C6_Witness ==
    /\ Overridden
    /\ \A t \in 1..Len(in_signal) : in_signal[t] \in {0, 1}
    /\ signal # in_signal
    /\ \E t \in 1..Len(trigger) : trigger[t] = -1

\* position_value[t] > multiplier * atr[t], False when either side is NaN
StrictlyAbove(t) ==
    /\ ~position_value[t].nan
    /\ ~atr[t].nan
    /\ position_value[t].v > take_profit_value * atr[t].v

\* position_value[t] < -(multiplier * atr[t]), False when either side is NaN
StrictlyBelow(t) ==
    /\ ~position_value[t].nan
    /\ ~atr[t].nan
    /\ position_value[t].v < -(stop_loss_value * atr[t].v)

\* C8: take_profit sets the signal to 0 at exactly the bars whose position value
\* is strictly greater than take_profit_value * atr and whose trigger is not 1,
\* and leaves the signal unchanged at every other bar.
C8_TakeProfitOverride ==
    op = "take_profit" =>
        \A t \in 1..Len(signal) :
            signal[t] = IF StrictlyAbove(t) /\ in_trigger[t] # 1 THEN 0 ELSE in_signal[t]

\* one bar exactly at the threshold keeps its signal, another bar above it is closed
C8_Witness ==
    /\ op = "take_profit"
    /\ \E t \in 1..Len(signal) :
           /\ ~position_value[t].nan /\ ~atr[t].nan
           /\ position_value[t].v = take_profit_value * atr[t].v
           /\ in_trigger[t] # 1
           /\ in_signal[t] # 0
           /\ signal[t] = in_signal[t]
    /\ \E t \in 1..Len(signal) : StrictlyAbove(t) /\ in_signal[t] # 0 /\ signal[t] = 0

\* C9: stop_loss sets the signal to 0 at every bar whose position value is
\* strictly below -(stop_loss_value * atr), whatever the incoming trigger, and
\* leaves the signal unchanged at every other bar.
C9_StopLossOverride ==
    op = "stop_loss" =>
        \A t \in 1..Len(signal) :
            signal[t] = IF StrictlyBelow(t) THEN 0 ELSE in_signal[t]

\* stop_loss, run after take_profit, closed an entry bar
C9_Witness ==
    /\ op = "stop_loss"
    /\ \E t \in 1..Len(signal) :
           StrictlyBelow(t) /\ in_trigger[t] = 1 /\ in_signal[t] # 0 /\ signal[t] = 0
    /\ \E t \in 1..Len(signal) :
           /\ ~position_value[t].nan /\ ~atr[t].nan
           /\ position_value[t].v = -(stop_loss_value * atr[t].v)
           /\ signal[t] = in_signal[t]

\* ------------------------------------------------------------------ exit_total, _stats (_solve_run)

InitPnl ==
    /\ op = "input"
    /\ signal \in [1..Bars -> SignalValues]
    /\ trigger = diff(signal)
    /\ position_value = <<>>
    /\ atr = <<>>
    /\ entry = <<>>
    /\ exit = <<>>
    /\ take_profit_value = 0
    /\ stop_loss_value = 0
    /\ in_signal = signal
    /\ in_trigger = trigger
    /\ pnl = None
    /\ result = None
    /\ IdleSolve
    /\ IdleWindows
    /\ IdleSegment
    /\ IdleBot

\* _solve_run on some position value array: exit_total, as the last stage of
\* the kernel, then _stats on the exit_value and exit_total it returns
SolveRun ==
    /\ op = "input"
    /\ \E pv \in [1..Bars -> PositionValues] :
           LET k == exit_total(pv, trigger, signal)
           IN  /\ position_value' = pv
               /\ pnl' = k
               /\ result' = _stats(k.exit_value, k.exit_total)
    /\ op' = "_solve_run"
    /\ UNCHANGED <<signal, trigger, atr, entry, exit, take_profit_value, stop_loss_value, in_signal, in_trigger, solve_vars, window_vars, segment_vars, bot_vars>>

NextPnl == SolveRun

SpecPnl == InitPnl /\ [][NextPnl]_vars

\* the last element of the path given to _stats
LastTotal == pnl.exit_total[Len(pnl.exit_total)]

\* max(exit_total) < abs(min(exit_total)); False when the path holds a NaN
PeakBelowDrawdown ==
    LET et == pnl.exit_total
    IN  /\ \A t \in 1..Len(et) : ~et[t].nan
        /\ \E lo \in 1..Len(et) :
               /\ \A t \in 1..Len(et) : et[lo].v <= et[t].v
               /\ \A t \in 1..Len(et) : et[t].v < (IF et[lo].v < 0 THEN -et[lo].v ELSE et[lo].v)

\* C3 as stated: _stats returns None exactly when the last exit_total is <= 0
\* or max(exit_total) < |min(exit_total)|, and otherwise returns the last
\* element as the final total.
C3_RejectsExactlyNonPositiveOrDrawdown ==
    op = "_solve_run" =>
        /\ result = None <=> ((~LastTotal.nan /\ LastTotal.v <= 0) \/ PeakBelowDrawdown)
        /\ result # None => result.final_total = LastTotal

\* C3 amended: _stats returns None exactly when the last exit_total is not
\* strictly greater than 0 (it is <= 0 or NaN) or max(exit_total) <
\* |min(exit_total)|, and otherwise returns the last element as the final total.
C3_RejectsExactlyNotPositiveOrDrawdown ==
    op = "_solve_run" =>
        /\ result = None <=> (LastTotal.nan \/ LastTotal.v <= 0 \/ PeakBelowDrawdown)
        /\ result # None => result.final_total = LastTotal

\* a path that ends above 0 and is rejected by the drawdown rule alone
C3_Witness ==
    /\ op = "_solve_run"
    /\ result = None
    /\ ~LastTotal.nan
    /\ LastTotal.v > 0
    /\ PeakBelowDrawdown

\* bars of the path with exit_value strictly above / strictly below 0
WinBars == {t \in 1..Len(pnl.exit_value) : ~pnl.exit_value[t].nan /\ pnl.exit_value[t].v > 0}

LossBars == {t \in 1..Len(pnl.exit_value) : ~pnl.exit_value[t].nan /\ pnl.exit_value[t].v < 0}

\* C4: for an accepted path wins counts the bars with exit_value > 0, losses
\* the bars with exit_value < 0, and ratio is wins / (wins + losses), within
\* [0,1], and 0 when wins + losses is 0.
C4_WinLossRatio ==
    (op = "_solve_run" /\ result # None) =>
        /\ result.wins = Cardinality(WinBars)
        /\ result.losses = Cardinality(LossBars)
        /\ result.ratio.den > 0
        /\ 0 <= result.ratio.num /\ result.ratio.num <= result.ratio.den
        /\ result.ratio.num * (result.wins + result.losses) = result.wins * result.ratio.den
        /\ (result.wins + result.losses = 0) => result.ratio.num = 0

\* an accepted path with a win, a loss and a bar that counts toward neither
C4_Witness ==
    /\ op = "_solve_run"
    /\ result # None
    /\ result.wins = 1
    /\ result.losses = 1
    /\ \E t \in 1..Len(pnl.exit_value) : pnl.exit_value[t] = F(0)

\* C7: exit_value is the position value at the bars with trigger -1 and 0
\* elsewhere, exit_total is its running sum, and exit_total changes between
\* consecutive bars only at a bar with trigger -1.
C7_ExitValueAndRunningSum ==
    op = "_solve_run" =>
        /\ \A t \in 1..Len(trigger) :
               pnl.exit_value[t] = IF trigger[t] = -1 THEN position_value[t] ELSE F(0)
        /\ pnl.exit_total[1] = pnl.exit_value[1]
        /\ \A t \in 2..Len(trigger) :
               /\ pnl.exit_total[t] =
                      IF pnl.exit_total[t - 1].nan \/ pnl.exit_value[t].nan THEN NaN
                      ELSE F(pnl.exit_total[t - 1].v + pnl.exit_value[t].v)
               /\ pnl.exit_total[t] # pnl.exit_total[t - 1] => trigger[t] = -1

\* an exit bar that moved the total, and a bar without an exit trigger whose
\* position value is not 0 and did not
C7_Witness ==
    /\ op = "_solve_run"
    /\ \E t \in 2..Len(trigger) :
           trigger[t] = -1 /\ pnl.exit_total[t] # pnl.exit_total[t - 1]
    /\ \E t \in 2..Len(trigger) :
           trigger[t] # -1 /\ position_value[t] \notin {F(0), NaN} /\ pnl.exit_total[t] = pnl.exit_total[t - 1]

\* ------------------------------------------------------------------ entry_price

\* ask / bid price columns
Prices == {F(p) : p \in 1..MaxPrice}

InitEntry ==
    /\ op = "input"
    /\ signal \in [1..Bars -> SignalValues]
    /\ trigger = diff(signal)
    /\ position_value = <<>>
    /\ atr = <<>>
    /\ entry \in [1..Bars -> Prices]
    /\ exit \in [1..Bars -> Prices]
    /\ take_profit_value = 0
    /\ stop_loss_value = 0
    /\ in_signal = signal
    /\ in_trigger = trigger
    /\ pnl = None
    /\ result = None
    /\ IdleSolve
    /\ IdleWindows
    /\ IdleSegment
    /\ IdleBot

EntryPrice ==
    /\ op = "input"
    /\ position_value' = entry_price(entry, exit, signal, trigger)
    /\ op' = "entry_price"
    /\ UNCHANGED <<signal, trigger, atr, entry, exit, take_profit_value, stop_loss_value, in_signal, in_trigger, pnl, result, solve_vars, window_vars, segment_vars, bot_vars>>

NextEntry == EntryPrice

SpecEntry == InitEntry /\ [][NextEntry]_vars

\* the bars up to t with an entry event
EntryBars(t) == {s \in 1..t : trigger[s] = 1}

\* the most recent bar up to t with an entry event
LastEntryBar(t) == CHOOSE s \in EntryBars(t) : \A u \in EntryBars(t) : u <= s

\* C10: position_value is 0 at every bar with signal 0 and trigger 0, bars
\* before the first entry included, and at every other bar it is exit minus the
\* entry price of the most recent entry event, NaN before the first one.
C10_PositionValue ==
    op = "entry_price" =>
        \A t \in 1..Len(signal) :
            position_value[t] =
                IF signal[t] = 0 /\ trigger[t] = 0 THEN F(0)
                ELSE IF EntryBars(t) = {} THEN NaN
                ELSE F(exit[t].v - entry[LastEntryBar(t)].v)

\* what entry_price returns: as C10, but NaN at a bar with signal 0 and
\* trigger 0 that no entry event precedes
EntryPriceReturns ==
    op = "entry_price" =>
        \A t \in 1..Len(signal) :
            position_value[t] =
                IF EntryBars(t) = {} THEN NaN
                ELSE IF signal[t] = 0 /\ trigger[t] = 0 THEN F(0)
                ELSE F(exit[t].v - entry[LastEntryBar(t)].v)

\* ------------------------------------------------------------------ _find_max

\* core.kernel.EdgeCategory members named by solve.py
EdgeCategory == {"Deterministic", "Quasi"}

\* what _solve_run keeps of kernel_stage_1's return value: the exit_value and
\* exit_total of some position value, trigger and signal arrays
kernel_stage_1 ==
    {LET k == exit_total(pv, diff(sig), sig)
     IN  [exit_value |-> k.exit_value, exit_total |-> k.exit_total] :
         pv \in [1..Bars -> PositionValues], sig \in [1..Bars -> SignalValues]}

\* every value _solve_run can return
_solve_run == {_stats(k.exit_value, k.exit_total) : k \in kernel_stage_1}

\* a >= b for two win ratios num / den
ratio_ge(a, b) == a.num * b.den >= b.num * a.den

BacktestResult(conf, et, ratio, wins, losses) ==
    [kernel_conf |-> conf, exit_total |-> et, ratio |-> ratio, wins |-> wins, losses |-> losses]

\* the update test with "or" between the two comparisons
updates_best_either(best, ratio, et) ==
    best = None \/ ratio_ge(ratio, best.ratio) \/ fge(et, best.exit_total)

\* best_result is None or (ratio >= best_result.ratio) and (et >= best_result.exit_total)
updates_best(best, ratio, et) ==
    best = None \/ (ratio_ge(ratio, best.ratio) /\ fge(et, best.exit_total))

\* the return with the test total_found <= 1
find_max_return_needs_two(found, best) == IF found <= 1 THEN None ELSE best

\* if total_found == 0: return None; return best_result
find_max_return(found, best) == IF found = 0 THEN None ELSE best

\* count += 1
_log_progress(n) == n + 1

Init ==
    /\ IdleCalc
    /\ result = None
    /\ pc = "loop"
    /\ force_edge \in {""} \cup EdgeCategory
    /\ count = 0
    /\ total_found = 0
    /\ best_result = None
    /\ kernel_conf = None
    /\ outcome = "none"
    /\ accepted = {}
    /\ ret = None
    /\ IdleWindows
    /\ IdleSegment
    /\ IdleBot

\* one iteration of the loop over configs: the generator yields one more
\* configuration
Candidate ==
    /\ pc = "loop"
    /\ count < MaxConfigs
    /\ \E edge \in EdgeCategory, run \in _solve_run :
           LET conf == [id |-> count + 1, edge |-> edge]
           IN  /\ kernel_conf' = conf
               /\ count' = _log_progress(count)
               /\ IF force_edge # "" /\ force_edge # edge
                  THEN /\ outcome' = "skipped"
                       /\ UNCHANGED <<result, total_found, best_result, accepted>>
                  ELSE /\ result' = run
                       /\ IF run = None
                          THEN /\ outcome' = "rejected"
                               /\ UNCHANGED <<total_found, best_result, accepted>>
                          ELSE LET built == BacktestResult(conf, run.final_total, run.ratio, run.wins, run.losses)
                               IN  /\ outcome' = "accepted"
                                   /\ total_found' = total_found + 1
                                   /\ accepted' = accepted \cup {built}
                                   /\ best_result' =
                                          IF updates_best(best_result, run.ratio, run.final_total)
                                          THEN built ELSE best_result
    /\ UNCHANGED <<calc_vars, pc, force_edge, ret, window_vars, segment_vars, bot_vars>>

\* the generator is exhausted, after any number of configurations
Return ==
    /\ pc = "loop"
    /\ ret' = find_max_return(total_found, best_result)
    /\ pc' = "done"
    /\ UNCHANGED <<calc_vars, result, force_edge, count, total_found, best_result, kernel_conf, outcome, accepted, window_vars, segment_vars, bot_vars>>

Next == Candidate \/ Return

Spec == Init /\ [][Next]_vars

\* the candidate of this step is at least as good as the incumbent on both metrics
DominatesIncumbent ==
    /\ result'.ratio.num * best_result.ratio.den >= best_result.ratio.num * result'.ratio.den
    /\ result'.final_total.v >= best_result.exit_total.v

\* C1: an accepted candidate replaces best_result if and only if there is no
\* best_result yet or its ratio and its exit total are both >= the incumbent's;
\* so best_result never decreases in ratio or in exit total, and a candidate
\* that improves one of the two only does not replace it.
C1_DominanceUpdate ==
    [][(pc = "loop" /\ count' = count + 1) =>
          /\ outcome' # "accepted" => best_result' = best_result
          /\ outcome' = "accepted" =>
                 /\ (best_result = None \/ DominatesIncumbent) =>
                        best_result' = BacktestResult(kernel_conf', result'.final_total, result'.ratio, result'.wins, result'.losses)
                 /\ ~(best_result = None \/ DominatesIncumbent) => best_result' = best_result
                 /\ best_result # None =>
                        /\ best_result'.ratio.num * best_result.ratio.den >= best_result.ratio.num * best_result'.ratio.den
                        /\ best_result'.exit_total.v >= best_result.exit_total.v]_vars

\* an accepted candidate with a larger exit total and a smaller ratio than the
\* incumbent left the incumbent in place
C1_Witness ==
    /\ outcome = "accepted"
    /\ best_result.kernel_conf # kernel_conf
    /\ result.final_total.v > best_result.exit_total.v
    /\ result.ratio.num * best_result.ratio.den < best_result.ratio.num * result.ratio.den

\* C2: _find_max returns None if and only if no candidate was accepted (each
\* was skipped by the forced-edge filter or rejected by _stats); otherwise it
\* returns the BacktestResult built from one of the accepted candidates.
C2_NoneIffNothingAccepted ==
    pc = "done" =>
        /\ ret = None <=> accepted = {}
        /\ accepted # {} => ret \in accepted

\* a run that accepted two candidates and returned the result built from the
\* first of them
C2_Witness ==
    /\ pc = "done"
    /\ Cardinality(accepted) = 2
    /\ ret \in accepted
    /\ ret.kernel_conf # kernel_conf

\* a backtest result with a positive exit total and a ratio in (0,1]
ProfitableWithWins(r) ==
    /\ fgt(r.exit_total, F(0))
    /\ 0 < r.ratio.num
    /\ r.ratio.num <= r.ratio.den

\* C15: every result _stats accepts has wins >= 1, a ratio > 0 and a final
\* total > 0; so every BacktestResult held as best_result or returned by
\* _find_max has exit_total > 0 and a ratio in (0,1], and a ratio of 0 never
\* reaches the comparison of the optimizer.
C15_AcceptedHasWins ==
    /\ result # None =>
           /\ result.wins >= 1
           /\ result.ratio.num > 0 /\ result.ratio.den > 0
           /\ fgt(result.final_total, F(0))
    /\ best_result # None => ProfitableWithWins(best_result)
    /\ ret # None => ProfitableWithWins(ret)
    /\ \A r \in accepted : ProfitableWithWins(r)

\* _find_max returned a result with losses, its ratio strictly between 0 and
\* 1, after comparing a second accepted candidate with it
C15_Witness ==
    /\ pc = "done"
    /\ ret # None
    /\ ret.losses >= 1
    /\ ret.ratio.num < ret.ratio.den
    /\ total_found = 2
    /\ ProfitableWithWins(ret)

\* ------------------------------------------------------------------ segmented_solve: windows

\* DataFrame.tail(n) taking the rows from the front
tail_from_front(df, n) == SubSeq(df, 1, IF n < Len(df) THEN n ELSE Len(df))

\* DataFrame.tail(n): the last n rows, all of them when n exceeds the length
tail(df, n) == SubSeq(df, Len(df) - (IF n < Len(df) THEN n ELSE Len(df)) + 1, Len(df))

\* DataFrame.head(n): the first n rows, all of them when n exceeds the length
head(df, n) == SubSeq(df, 1, IF n < Len(df) THEN n ELSE Len(df))

\* the series _get_data returned, each bar named by its position in time
InitWindows ==
    /\ IdleCalc
    /\ result = None
    /\ IdleSolve
    /\ \E n \in 1..MaxSeries : orig_df = [t \in 1..n |-> t]
    /\ train_size \in 1..MaxWindow
    /\ sample_size \in 1..MaxWindow
    /\ orig_df_train = <<>>
    /\ orig_df_tp_train = <<>>
    /\ orig_df_sample = <<>>
    /\ seg_pc = "preprocess"
    /\ sample_runs = None
    /\ searches = <<>>
    /\ raw_zk_result = None
    /\ refined_result_zk = None
    /\ result_pk = None
    /\ raw_zk_bet = None
    /\ zk_bet = None
    /\ pk_bet = None
    /\ seg_ret = None
    /\ IdleBot

\* orig_df.head(train_size), orig_df_train.tail(sample_size), orig_df.tail(sample_size)
Windows ==
    /\ seg_pc = "preprocess"
    /\ orig_df_train' = head(orig_df, train_size)
    /\ orig_df_tp_train' = tail(head(orig_df, train_size), sample_size)
    /\ orig_df_sample' = tail(orig_df, sample_size)
    /\ seg_pc' = "windows"
    /\ UNCHANGED <<calc_vars, result, solve_vars, orig_df, train_size, sample_size, sample_runs, searches, raw_zk_result, refined_result_zk, result_pk, raw_zk_bet, zk_bet, pk_bet, seg_ret, bot_vars>>

NextWindows == Windows

SpecWindows == InitWindows /\ [][NextWindows]_vars

\* the bars of a window
BarsOf(w) == {w[i] : i \in 1..Len(w)}

\* w holds the bars lo..hi of the series, in time order
IsRange(w, lo, hi) == Len(w) = hi - lo + 1 /\ \A i \in 1..Len(w) : w[i] = lo + i - 1

Smaller(a, b) == IF a < b THEN a ELSE b

\* C13 as stated: for every series length, train_size and sample_size the
\* training window is the oldest train_size bars, the sample window is the most
\* recent sample_size bars and shares no bar with the training window, and the
\* refine window is the tail of the training window with as many bars as the
\* sample window.
C13_WindowsForEverySize ==
    seg_pc = "windows" =>
        /\ IsRange(orig_df_train, 1, train_size)
        /\ IsRange(orig_df_sample, Len(orig_df) - sample_size + 1, Len(orig_df))
        /\ BarsOf(orig_df_sample) \cap BarsOf(orig_df_train) = {}
        /\ IsRange(orig_df_tp_train, Len(orig_df_train) - Len(orig_df_sample) + 1, Len(orig_df_train))
        /\ Len(orig_df_tp_train) = Len(orig_df_sample)

\* C13 amended: the training window is the oldest min(train_size, n) bars of
\* the n-bar series, the sample window the most recent min(sample_size, n)
\* bars, and the refine window the last min(sample_size, length of the training
\* window) bars of the training window. When n >= train_size + sample_size the
\* training and sample windows share no bar, and when moreover sample_size <=
\* train_size the refine window has exactly as many bars as the sample window.
C13_WindowsByHeadAndTail ==
    seg_pc = "windows" =>
        LET n == Len(orig_df)
            tr == Smaller(train_size, n)
            sa == Smaller(sample_size, n)
        IN  /\ IsRange(orig_df_train, 1, tr)
            /\ IsRange(orig_df_sample, n - sa + 1, n)
            /\ IsRange(orig_df_tp_train, tr - Smaller(sample_size, tr) + 1, tr)
            /\ n >= train_size + sample_size =>
                   /\ Len(orig_df_train) = train_size
                   /\ Len(orig_df_sample) = sample_size
                   /\ BarsOf(orig_df_sample) \cap BarsOf(orig_df_train) = {}
                   /\ sample_size <= train_size => Len(orig_df_tp_train) = Len(orig_df_sample)

\* a series of exactly train_size + sample_size bars whose refine window is a
\* proper tail of the training window
C13_Witness ==
    /\ seg_pc = "windows"
    /\ Len(orig_df) = train_size + sample_size
    /\ sample_size > 1
    /\ sample_size < train_size
    /\ orig_df_tp_train # orig_df_train
    /\ Len(orig_df_tp_train) = sample_size
    /\ orig_df_tp_train[1] = train_size - sample_size + 1

\* ------------------------------------------------------------------ segmented_solve: searches

\* solver_config.get_configs(kernel_conf_in): the candidate space in the order
\* of its enumeration, one configuration per edge category
get_configs == <<[id |-> 1, edge |-> "Deterministic"], [id |-> 2, edge |-> "Quasi"]>>

\* what _solve_run and segmented_solve read of one kernel run over a window:
\* the value _stats returns for its exit_value and exit_total, and
\* df.iloc[-1].exit_total
kernel ==
    {[run |-> _stats(k.exit_value, k.exit_total), exit_total |-> k.exit_total[Len(k.exit_total)]] :
         k \in kernel_stage_1}

RECURSIVE find_max_loop(_, _, _)
\* total_found and best_result of _find_max after the first n configurations,
\* runs[i] being what _solve_run returns for configuration i
find_max_loop(runs, force, n) ==
    IF n = 0 THEN [total_found |-> 0, best_result |-> None]
    ELSE LET prev == find_max_loop(runs, force, n - 1)
             conf == get_configs[n]
             run == runs[n]
         IN  IF force # "" /\ force # conf.edge THEN prev
             ELSE IF run = None THEN prev
             ELSE [total_found |-> prev.total_found + 1,
                   best_result |->
                       IF updates_best(prev.best_result, run.ratio, run.final_total)
                       THEN BacktestResult(conf, run.final_total, run.ratio, run.wins, run.losses)
                       ELSE prev.best_result]

\* _find_max returning the first candidate it accepted
find_max_first_accepted(runs, force) ==
    LET ok == {n \in 1..Len(get_configs) : (force = "" \/ force = get_configs[n].edge) /\ runs[n] # None}
    IN  IF ok = {} THEN None
        ELSE LET n == CHOOSE m \in ok : \A k \in ok : m <= k
             IN  BacktestResult(get_configs[n], runs[n].final_total, runs[n].ratio, runs[n].wins, runs[n].losses)

_find_max(runs, force) ==
    LET r == find_max_loop(runs, force, Len(get_configs))
    IN  find_max_return(r.total_found, r.best_result)

\* the part of a _find_max result segmented_solve reads: its kernel_conf
\* (the other fields are only logged)
winner(r) == IF r = None THEN None ELSE [kernel_conf |-> r.kernel_conf]

\* solver_config.force_edge
ForceEdges == {""} \cup EdgeCategory

\* every outcome of _find_max over a window, for each forced edge
window_search ==
    [f \in ForceEdges |-> {winner(_find_max(runs, f)) : runs \in [1..Len(get_configs) -> _solve_run]}]

\* if np.isnan(x): x = 0.0
nan_to_zero(x) == IF isnan(x) THEN F(0) ELSE x

\* the base configuration the caller passes to segmented_solve
kernel_conf_in == [id |-> 0, edge |-> ""]

\* the refine search based on kernel_conf_in, as the training search is
refine_base_default(raw) == kernel_conf_in

\* the base configuration of the refine search and of the holdout-sample search
refine_base(raw) == raw.kernel_conf

\* df.iloc[-1].exit_total of kernel(orig_df_sample.copy(), r.kernel_conf)
sample_exit_total(r) == sample_runs[r.kernel_conf.id].exit_total

InitSegment ==
    /\ IdleCalc
    /\ result = None
    /\ pc = "idle"
    /\ force_edge \in ForceEdges
    /\ count = 0
    /\ total_found = 0
    /\ best_result = None
    /\ kernel_conf = None
    /\ outcome = "none"
    /\ accepted = {}
    /\ ret = None
    /\ IdleWindows
    /\ seg_pc = "start"
    /\ sample_runs \in [1..Len(get_configs) -> kernel]
    /\ searches = <<>>
    /\ raw_zk_result = None
    /\ refined_result_zk = None
    /\ result_pk = None
    /\ raw_zk_bet = None
    /\ zk_bet = None
    /\ pk_bet = None
    /\ seg_ret = None
    /\ IdleBot

\* get_git_info returned an exception
GitInfoFails ==
    /\ seg_pc = "start"
    /\ seg_ret' = <<F(0), F(0), F(0)>>
    /\ seg_pc' = "done"
    /\ UNCHANGED <<calc_vars, result, solve_vars, window_vars, sample_runs, searches, raw_zk_result, refined_result_zk, result_pk, raw_zk_bet, zk_bet, pk_bet, bot_vars>>

\* the search over df_train, then the training winner applied to the sample
TrainSearch ==
    /\ seg_pc = "start"
    /\ searches' = Append(searches, [df |-> "df_train", kernel_conf_in |-> kernel_conf_in])
    /\ \E found \in window_search[force_edge] :
           /\ raw_zk_result' = found
           /\ refined_result_zk' = None
           /\ IF found = None
              THEN /\ seg_ret' = <<F(0), F(0), F(0)>>
                   /\ seg_pc' = "done"
                   /\ UNCHANGED raw_zk_bet
              ELSE /\ raw_zk_bet' = nan_to_zero(sample_runs[found.kernel_conf.id].exit_total)
                   /\ seg_pc' = "refine"
                   /\ UNCHANGED seg_ret
    /\ UNCHANGED <<calc_vars, result, solve_vars, window_vars, sample_runs, result_pk, zk_bet, pk_bet, bot_vars>>

\* the search over df_tp_train, then the refined winner applied to the sample
RefineSearch ==
    /\ seg_pc = "refine"
    /\ searches' = Append(searches, [df |-> "df_tp_train", kernel_conf_in |-> refine_base(raw_zk_result)])
    /\ \E found \in window_search[force_edge] :
           /\ refined_result_zk' = found
           /\ zk_bet' = IF found # None
                        THEN sample_runs[found.kernel_conf.id].exit_total
                        ELSE nan_to_zero(F(0))
    /\ seg_pc' = "sample"
    /\ UNCHANGED <<calc_vars, result, solve_vars, window_vars, sample_runs, raw_zk_result, result_pk, raw_zk_bet, pk_bet, seg_ret, bot_vars>>

\* the search over df_sample, then its winner applied to the sample, and the return
SampleSearch ==
    /\ seg_pc = "sample"
    /\ searches' = Append(searches, [df |-> "df_sample", kernel_conf_in |-> refine_base(raw_zk_result)])
    /\ LET found == winner(_find_max([i \in 1..Len(get_configs) |-> sample_runs[i].run], force_edge))
           bet == IF found # None
                  THEN nan_to_zero(sample_runs[found.kernel_conf.id].exit_total)
                  ELSE F(0)
       IN  /\ result_pk' = found
           /\ pk_bet' = bet
           /\ seg_ret' = <<raw_zk_bet, zk_bet, bet>>
    /\ seg_pc' = "done"
    /\ UNCHANGED <<calc_vars, result, solve_vars, window_vars, sample_runs, raw_zk_result, refined_result_zk, raw_zk_bet, zk_bet, bot_vars>>

NextSegment == GitInfoFails \/ TrainSearch \/ RefineSearch \/ SampleSearch

SpecSegment == InitSegment /\ [][NextSegment]_vars

\* the search behind component i of the returned triple found nothing
SearchFoundNothing(i) ==
    CASE i = 1 -> raw_zk_result = None
      [] i = 2 -> raw_zk_result = None \/ refined_result_zk = None
      [] i = 3 -> raw_zk_result = None \/ result_pk = None

\* the holdout evaluation behind component i ended in a NaN exit total
HoldoutUndefined(i) ==
    /\ ~SearchFoundNothing(i)
    /\ CASE i = 1 -> isnan(sample_exit_total(raw_zk_result))
         [] i = 2 -> isnan(sample_exit_total(refined_result_zk))
         [] i = 3 -> isnan(sample_exit_total(result_pk))

\* C11: each of the three values segmented_solve returns is a defined number:
\* no NaN is returned in any position, and a component whose search found
\* nothing or whose holdout evaluation ended in a NaN exit total is 0.0.
C11_ReturnsDefinedNumbers ==
    seg_pc = "done" =>
        \A i \in 1..3 :
            /\ ~isnan(seg_ret[i])
            /\ (SearchFoundNothing(i) \/ HoldoutUndefined(i)) => seg_ret[i] = F(0)

\* what segmented_solve returns: as C11 in the first and third position; the
\* second is 0.0 when the refine search found nothing and otherwise the last
\* exit total of the refined winner on the sample, NaN included
SegmentedSolveReturns ==
    seg_pc = "done" =>
        /\ \A i \in {1, 3} :
               /\ ~isnan(seg_ret[i])
               /\ (SearchFoundNothing(i) \/ HoldoutUndefined(i)) => seg_ret[i] = F(0)
        /\ SearchFoundNothing(2) => seg_ret[2] = F(0)
        /\ ~SearchFoundNothing(2) => seg_ret[2] = sample_exit_total(refined_result_zk)

\* the training winner's run over the holdout sample is accepted by _stats with
\* a win ratio no lower than that of any other candidate the holdout-sample
\* search accepts
TrainingWinnerLeadsRatio ==
    LET w == sample_runs[raw_zk_result.kernel_conf.id].run
    IN  /\ w # None
        /\ \A i \in 1..Len(get_configs) :
               ((force_edge = "" \/ force_edge = get_configs[i].edge) /\ sample_runs[i].run # None) =>
                   ratio_ge(w.ratio, sample_runs[i].run.ratio)

\* C12 as stated: whenever the training search finds a result, the
\* perfect-knowledge P&L (third component) is >= the raw holdout P&L (first
\* component).
C12_PerfectKnowledgeIsUpperBound ==
    (seg_pc = "done" /\ raw_zk_result # None) => fge(seg_ret[3], seg_ret[1])

\* C12 amended: whenever the training search finds a result, the
\* perfect-knowledge P&L is >= 0, and it is >= the raw holdout P&L when that is
\* <= 0 or when the training winner's run over the holdout sample is accepted
\* by _stats with a win ratio no lower than that of any other accepted candidate.
C12_UpperBoundWhenRatioLeads ==
    (seg_pc = "done" /\ raw_zk_result # None) =>
        /\ fge(seg_ret[3], F(0))
        /\ (fle(seg_ret[1], F(0)) \/ TrainingWinnerLeadsRatio) => fge(seg_ret[3], seg_ret[1])

\* the training winner is profitable and leads the ratio on the sample, and the
\* holdout-sample search found another configuration with a larger exit total
C12_Witness ==
    /\ seg_pc = "done"
    /\ raw_zk_result # None
    /\ result_pk # None
    /\ TrainingWinnerLeadsRatio
    /\ result_pk.kernel_conf # raw_zk_result.kernel_conf
    /\ fgt(seg_ret[1], F(0))
    /\ fgt(seg_ret[3], seg_ret[1])

\* C14: the searches run in the order training, refine, holdout sample; the
\* refine search is based on the training winner's configuration; the
\* holdout-sample search runs whether or not the refine search found a result;
\* and when the training search finds nothing, (0.0, 0.0, 0.0) is returned
\* without a refine or a holdout-sample search.
C14_SearchOrder ==
    /\ Len(searches) <= 3
    /\ \A i \in 1..Len(searches) : searches[i].df = <<"df_train", "df_tp_train", "df_sample">>[i]
    /\ Len(searches) >= 2 =>
           /\ raw_zk_result # None
           /\ searches[2].kernel_conf_in = raw_zk_result.kernel_conf
    /\ (seg_pc = "done" /\ searches # <<>>) =>
           IF raw_zk_result = None
           THEN Len(searches) = 1 /\ seg_ret = <<F(0), F(0), F(0)>>
           ELSE Len(searches) = 3

\* the refine search found nothing and the holdout-sample search ran and found
\* a result
C14_Witness ==
    /\ seg_pc = "done"
    /\ raw_zk_result # None
    /\ refined_result_zk = None
    /\ Len(searches) = 3
    /\ searches[3].df = "df_sample"
    /\ result_pk # None

\* ------------------------------------------------------------------ bot_run

\* ids of trades at the exchange; -1 stands for no open trade
TradeIds == 1..MaxTradeId

\* Record(df): signal and trigger of the last bar, the trigger being the
\* difference to the signal of the bar before
Records == {[signal |-> s, trigger |-> s - p] : s \in SignalValues, p \in SignalValues}

\* what bot_run hands back: a returned (trade_id, err) or a raised exception
Returned(id, err) == [trade_id |-> id, err |-> err, raised |-> "None"]

Raised(exc) == [trade_id |-> None, err |-> None, raised |-> exc]

InitBot ==
    /\ IdleCalc
    /\ result = None
    /\ IdleSolve
    /\ IdleWindows
    /\ IdleSegment
    /\ bot_pc = "bot_run"
    /\ trade_id = None
    /\ rec = None
    /\ calls = <<>>
    /\ bot_ret = None

\* get_open_trade and getOandaOHLC inside the try, each of which may raise,
\* then kernel and Record(df) outside any try
Fetch ==
    /\ bot_pc = "bot_run"
    /\ \/ /\ calls' = <<"get_open_trade">>
          /\ bot_ret' = Returned(-1, "Exception")
          /\ bot_pc' = "returned"
          /\ UNCHANGED <<trade_id, rec>>
       \/ /\ trade_id' \in TradeIds \cup {-1}
          /\ calls' = <<"get_open_trade", "getOandaOHLC">>
          /\ bot_ret' = Returned(-1, "Exception")
          /\ bot_pc' = "returned"
          /\ UNCHANGED rec
       \/ /\ trade_id' \in TradeIds \cup {-1}
          /\ calls' = <<"get_open_trade", "getOandaOHLC", "kernel">>
          /\ bot_ret' = Raised("Exception")
          /\ bot_pc' = "raised"
          /\ UNCHANGED rec
       \/ /\ trade_id' \in TradeIds \cup {-1}
          /\ rec' \in Records
          /\ calls' = <<"get_open_trade", "getOandaOHLC", "kernel">>
          /\ bot_pc' = "entry"
          /\ UNCHANGED bot_ret
    /\ UNCHANGED <<calc_vars, result, solve_vars, window_vars, segment_vars>>

\* if rec.trigger == 1 and trade_id == -1: place_order
Entry ==
    /\ bot_pc = "entry"
    /\ IF rec.trigger = 1 /\ trade_id = -1
       THEN /\ calls' = Append(calls, "place_order")
            /\ \/ /\ trade_id' \in TradeIds
                  /\ bot_pc' = "exit"
                  /\ UNCHANGED bot_ret
               \/ /\ bot_ret' = Returned(-1, "Exception")
                  /\ bot_pc' = "returned"
                  /\ UNCHANGED trade_id
       ELSE /\ bot_pc' = "exit"
            /\ UNCHANGED <<trade_id, calls, bot_ret>>
    /\ UNCHANGED <<calc_vars, result, solve_vars, window_vars, segment_vars, rec>>

\* if rec.trigger == -1 and trade_id != -1: close_order
Exit ==
    /\ bot_pc = "exit"
    /\ IF rec.trigger = -1 /\ trade_id # -1
       THEN /\ calls' = Append(calls, "close_order")
            /\ \/ /\ bot_pc' = "flat"
                  /\ UNCHANGED bot_ret
               \/ /\ bot_ret' = Returned(trade_id, "Exception")
                  /\ bot_pc' = "returned"
       ELSE /\ bot_pc' = "flat"
            /\ UNCHANGED <<calls, bot_ret>>
    /\ UNCHANGED <<calc_vars, result, solve_vars, window_vars, segment_vars, trade_id, rec>>

\* assert trade_id == -1, "trades should not be open"
assert_no_trade(id) == id = -1

\* if rec.trigger == 0 and rec.signal == 0 and trade_id != -1: close_order,
\* report, assert; then report and return trade_id, None
Flat ==
    /\ bot_pc = "flat"
    /\ IF rec.trigger = 0 /\ rec.signal = 0 /\ trade_id # -1
       THEN \/ /\ calls' = Append(calls, "close_order")
               /\ bot_ret' = Raised("Exception")
               /\ bot_pc' = "raised"
            \/ IF assert_no_trade(trade_id)
               THEN /\ calls' = calls \o <<"close_order", "report", "assert", "report">>
                    /\ bot_ret' = Returned(trade_id, None)
                    /\ bot_pc' = "returned"
               ELSE /\ calls' = calls \o <<"close_order", "report", "assert">>
                    /\ bot_ret' = Raised("AssertionError")
                    /\ bot_pc' = "raised"
       ELSE /\ calls' = Append(calls, "report")
            /\ bot_ret' = Returned(trade_id, None)
            /\ bot_pc' = "returned"
    /\ UNCHANGED <<calc_vars, result, solve_vars, window_vars, segment_vars, trade_id, rec>>

\* bot: while True, the next bot_run after one that returned
Again ==
    /\ bot_pc = "returned"
    /\ bot_pc' = "bot_run"
    /\ trade_id' = None
    /\ rec' = None
    /\ calls' = <<>>
    /\ UNCHANGED <<calc_vars, result, solve_vars, window_vars, segment_vars, bot_ret>>

NextBot == Fetch \/ Entry \/ Exit \/ Flat \/ Again

SpecBot == InitBot /\ [][NextBot]_vars

\* the assertion was evaluated in the bot_run that just ended
AssertEvaluated == \E i \in 1..Len(calls) : calls[i] = "assert"

\* the last bar is flat while a trade is open, and close_order was called and
\* did not raise
ClosedFlatTrade ==
    /\ bot_pc \in {"returned", "raised"}
    /\ AssertEvaluated
    /\ rec.trigger = 0
    /\ rec.signal = 0
    /\ trade_id # -1

\* C16: the assertion 'trades should not be open' holds every time it is
\* evaluated: when the last bar has trigger 0 and signal 0 while a trade is
\* open, close_order is called and bot_run returns without an AssertionError.
C16_AssertionHolds ==
    /\ bot_ret # None => bot_ret.raised # "AssertionError"
    /\ ClosedFlatTrade => bot_pc = "returned" /\ bot_ret = Returned(trade_id, None)

\* what bot_run does: the assertion is evaluated only in a run whose trade_id
\* is not -1, trade_id is not assigned after close_order, and the run ends in
\* an AssertionError
AssertionAlwaysFails ==
    (bot_pc \in {"returned", "raised"} /\ AssertEvaluated) =>
        /\ trade_id # -1
        /\ bot_pc = "raised"
        /\ bot_ret = Raised("AssertionError")

====
